---- MODULE Spec2Model ----
(***************************************************************************)
(* Lifetime management of class A (ObjectLifetimeManagement.cpp): an       *)
(* object holding  int* data  and  int size,  with its constructors,       *)
(* destructor, conversion operator, copy/move construction and copy/move   *)
(* assignment, acting on a heap of  new int[n] / delete[]  blocks.         *)
(***************************************************************************)
EXTENDS Integers, Sequences, FiniteSets, TLC

\* ---------------------------------------------------------------- bounds
NumObj  == 3   \* instances of A a run may construct
NumAddr == 2   \* addresses operator new[] can hand out
MaxLen  == 2   \* largest length asked of a constructor
NegLen  == 1   \* smallest length asked of a constructor is -NegLen
MaxVal  == 1   \* an int cell holds a value in 0..MaxVal

Obj  == 1..NumObj
Addr == 1..NumAddr
Val  == 0..MaxVal
Null == 0                        \* nullptr
Lens == (0 - NegLen)..MaxLen     \* int arguments of A(int)
Halves == (0 - 2 * NegLen - 1)..(2 * MaxLen + 1)   \* double arguments, as d = h/2

VARIABLES
    objs,         \* objs[o] = [st, size, data]: the members of instance o
    heap,         \* heap[a] = [alloc, cells]: the block at address a
    doubleFree,   \* delete[] was applied to a block that was already released
    allocFailed,  \* some new int[n] has thrown std::bad_alloc
    everAlloc,    \* the addresses new int[n] has ever returned
    aborted,      \* the process was killed by undefined behaviour
    last          \* the member function that ran last, its arguments and outcome

vars == <<objs, heap, doubleFree, allocFailed, everAlloc, aborted, last>>

\* ------------------------------------------------------------ the members
\* int* data = nullptr; int size = 0;  (default member initializers)
DefaultMembers == [size |-> 0, data |-> Null]

NoObject   == [st |-> "none", size |-> 0, data |-> Null]
DeadObject == [st |-> "dead", size |-> 0, data |-> Null]
Live(sz, d) == [st |-> "live", size |-> sz, data |-> d]

FreeBlock == [alloc |-> FALSE, cells |-> <<>>]
Block(c)  == [alloc |-> TRUE, cells |-> c]

Call(op, dst, src, arg, res, ret) ==
    [op |-> op, dst |-> dst, src |-> src, arg |-> arg, res |-> res, ret |-> ret]

\* ---------------------------------------------------------------- the heap
\* new int[n]: the addresses it may return; it throws when it returns none
FreeAddrs(h) == {a \in Addr : ~h[a].alloc}

\* new int[n] leaves the cells uninitialized
Uninit(n) == [1..n -> Val]

\* for (i = 0; i < size; ++i) data[i] = 0;
ZeroFill(n) == [i \in 1..n |-> 0]

\* delete[] p: nullptr is a no-op; a released block stays released
Delete(h, p) == IF p # Null /\ h[p].alloc THEN [h EXCEPT ![p] = FreeBlock] ELSE h

\* delete[] p on a block that is not allocated
IsDoubleFree(h, p) == p # Null /\ ~h[p].alloc

\* std::memcpy(data, p, n * sizeof(int)) reads outside a live block
BadRead(h, p, n) ==
    n > 0 /\ (IF p = Null THEN TRUE
              ELSE IF h[p].alloc THEN Len(h[p].cells) < n ELSE TRUE)

\* what std::memcpy(data, p, n * sizeof(int)) can leave in the destination: the
\* source's cells when p is a live block, anything where it reads past the block
\* or from a released one, and nothing at all from nullptr (the read faults)
Memcpy(h, p, n) ==
    IF p = Null THEN {}
    ELSE IF h[p].alloc
    THEN {c \in Uninit(n) :
            \A i \in 1..n : i <= Len(h[p].cells) => c[i] = h[p].cells[i]}
    ELSE Uninit(n)

\* static_cast<int>(d) for d = h/2: truncation toward zero
Trunc(h) == IF h >= 0 THEN h \div 2 ELSE 0 - ((0 - h) \div 2)

\* operator int() const { return size; }
ToInt(o) == objs[o].size

\* ------------------------------------------------------------------- Init
Init ==
    /\ objs = [o \in Obj |-> NoObject]
    /\ heap = [a \in Addr |-> FreeBlock]
    /\ doubleFree = FALSE
    /\ allocFailed = FALSE
    /\ everAlloc = {}
    /\ aborted = FALSE
    /\ last = Call("none", 0, 0, 0, "ok", 0)

\* the declaration  A x...;  that runs next constructs the first unused instance
Unborn(o) ==
    /\ objs[o].st = "none"
    /\ \A q \in Obj : q < o => objs[q].st # "none"

\* the process dies inside member function op: nothing runs afterwards
Abort(op, dst, src, arg) ==
    /\ aborted' = TRUE
    /\ last' = Call(op, dst, src, arg, "abort", 0)
    /\ UNCHANGED <<objs, heap, doubleFree, allocFailed, everAlloc>>

\* ----------------------------------------------------------- constructors
\* A::A() : data(nullptr), size(0)
DefaultCtor(o) ==
    /\ ~aborted
    /\ Unborn(o)
    /\ objs' = [objs EXCEPT ![o] = Live(0, Null)]
    /\ last' = Call("DefaultCtor", o, 0, 0, "ok", 0)
    /\ UNCHANGED <<heap, doubleFree, allocFailed, aborted, everAlloc>>

\* A::A(int size) without the loop that zeroes data[0..size-1]
ParamCtorNoZero(o, n) ==
    /\ ~aborted
    /\ Unborn(o)
    /\ IF n > 0
       THEN \/ \E a \in FreeAddrs(heap) : \E c \in Uninit(n) :
                 /\ heap' = [heap EXCEPT ![a] = Block(c)]
                 /\ everAlloc' = everAlloc \cup {a}
                 /\ objs' = [objs EXCEPT ![o] = Live(n, a)]
                 /\ last' = Call("ParamCtor", o, 0, n, "ok", 0)
                 /\ UNCHANGED <<doubleFree, allocFailed, aborted>>
            \/ /\ allocFailed' = TRUE
               /\ last' = Call("ParamCtor", o, 0, n, "oom", 0)
               /\ UNCHANGED <<objs, heap, doubleFree, aborted, everAlloc>>
       ELSE /\ objs' = [objs EXCEPT ![o] = Live(n, Null)]
            /\ last' = Call("ParamCtor", o, 0, n, "ok", 0)
            /\ UNCHANGED <<heap, doubleFree, allocFailed, aborted, everAlloc>>

\* A::A(int size) : size(size)
ParamCtor(o, n) ==
    /\ ~aborted
    /\ Unborn(o)
    /\ IF n > 0
       THEN \/ \E a \in FreeAddrs(heap) :
                 /\ heap' = [heap EXCEPT ![a] = Block(ZeroFill(n))]
                 /\ everAlloc' = everAlloc \cup {a}
                 /\ objs' = [objs EXCEPT ![o] = Live(n, a)]
                 /\ last' = Call("ParamCtor", o, 0, n, "ok", 0)
                 /\ UNCHANGED <<doubleFree, allocFailed, aborted>>
            \/ /\ allocFailed' = TRUE
               /\ last' = Call("ParamCtor", o, 0, n, "oom", 0)
               /\ UNCHANGED <<objs, heap, doubleFree, aborted, everAlloc>>
       ELSE /\ objs' = [objs EXCEPT ![o] = Live(n, Null)]
            /\ last' = Call("ParamCtor", o, 0, n, "ok", 0)
            /\ UNCHANGED <<heap, doubleFree, allocFailed, aborted, everAlloc>>

\* A::A(double d) : size(static_cast<int>(d))
ConvCtor(o, h) ==
    /\ ~aborted
    /\ Unborn(o)
    /\ LET n == Trunc(h) IN
       IF n > 0
       THEN \/ \E a \in FreeAddrs(heap) :
                 /\ heap' = [heap EXCEPT ![a] = Block(ZeroFill(n))]
                 /\ everAlloc' = everAlloc \cup {a}
                 /\ objs' = [objs EXCEPT ![o] = Live(n, a)]
                 /\ last' = Call("ConvCtor", o, 0, h, "ok", 0)
                 /\ UNCHANGED <<doubleFree, allocFailed, aborted>>
            \/ /\ allocFailed' = TRUE
               /\ last' = Call("ConvCtor", o, 0, h, "oom", 0)
               /\ UNCHANGED <<objs, heap, doubleFree, aborted, everAlloc>>
       ELSE /\ objs' = [objs EXCEPT ![o] = Live(n, Null)]
            /\ last' = Call("ConvCtor", o, 0, h, "ok", 0)
            /\ UNCHANGED <<heap, doubleFree, allocFailed, aborted, everAlloc>>

\* A::operator int() const
ConvInt(o) ==
    /\ ~aborted
    /\ objs[o].st = "live"
    /\ last' = Call("ConvInt", o, 0, 0, "ok", ToInt(o))
    /\ UNCHANGED <<objs, heap, doubleFree, allocFailed, aborted, everAlloc>>

\* A::A(const A& other) : size(other.size)
CopyCtor(o, s) ==
    /\ ~aborted
    /\ Unborn(o)
    /\ objs[s].st = "live"
    /\ LET n == objs[s].size
           p == objs[s].data
       IN
       IF n > 0
       THEN \/ \E a \in FreeAddrs(heap) : \E c \in Memcpy(heap, p, n) :
                 /\ heap' = [heap EXCEPT ![a] = Block(c)]
                 /\ everAlloc' = everAlloc \cup {a}
                 /\ objs' = [objs EXCEPT ![o] = Live(n, a)]
                 /\ last' = Call("CopyCtor", o, s, 0, "ok", 0)
                 /\ UNCHANGED <<doubleFree, allocFailed, aborted>>
            \/ /\ FreeAddrs(heap) # {}
               /\ BadRead(heap, p, n)
               /\ Abort("CopyCtor", o, s, 0)
            \/ /\ allocFailed' = TRUE
               /\ last' = Call("CopyCtor", o, s, 0, "oom", 0)
               /\ UNCHANGED <<objs, heap, doubleFree, aborted, everAlloc>>
       ELSE /\ objs' = [objs EXCEPT ![o] = Live(n, Null)]
            /\ last' = Call("CopyCtor", o, s, 0, "ok", 0)
            /\ UNCHANGED <<heap, doubleFree, allocFailed, aborted, everAlloc>>

\* A::A(A&& other): the members start from their default initializers
MoveCtor(o, s) ==
    /\ ~aborted
    /\ Unborn(o)
    /\ objs[s].st = "live"
    /\ LET tmp_size == DefaultMembers.size
           tmp_data == DefaultMembers.data
       IN objs' = [objs EXCEPT ![o] = Live(objs[s].size, objs[s].data),
                               ![s] = Live(tmp_size, tmp_data)]
    /\ last' = Call("MoveCtor", o, s, 0, "ok", 0)
    /\ UNCHANGED <<heap, doubleFree, allocFailed, aborted, everAlloc>>

\* ------------------------------------------------------------- assignment
\* A& A::operator=(const A& other), without the  this != &other  test
CopyAssignNoSelfTest(o, s) ==
    /\ ~aborted
    /\ objs[o].st = "live"
    /\ objs[s].st = "live"
    /\ LET p  == objs[o].data
           h1 == Delete(heap, p)
           n  == objs[s].size
           q  == objs[s].data
       IN
       \/ /\ IsDoubleFree(heap, p)
          /\ Abort("CopyAssign", o, s, 0)
       \/ /\ doubleFree' = (doubleFree \/ IsDoubleFree(heap, p))
          /\ IF n > 0
             THEN \/ \E a \in FreeAddrs(h1) : \E c \in Memcpy(h1, q, n) :
                       /\ heap' = [h1 EXCEPT ![a] = Block(c)]
                       /\ everAlloc' = everAlloc \cup {a}
                       /\ objs' = [objs EXCEPT ![o] = Live(n, a)]
                       /\ last' = Call("CopyAssign", o, s, 0, "ok", 0)
                       /\ UNCHANGED <<allocFailed, aborted>>
                  \/ /\ heap' = h1
                     /\ objs' = [objs EXCEPT ![o] = Live(n, p)]
                     /\ allocFailed' = TRUE
                     /\ last' = Call("CopyAssign", o, s, 0, "oom", 0)
                     /\ UNCHANGED <<aborted, everAlloc>>
             ELSE /\ heap' = h1
                  /\ objs' = [objs EXCEPT ![o] = Live(n, Null)]
                  /\ last' = Call("CopyAssign", o, s, 0, "ok", 0)
                  /\ UNCHANGED <<allocFailed, aborted, everAlloc>>

\* A& A::operator=(const A& other)
CopyAssign(o, s) ==
    /\ ~aborted
    /\ objs[o].st = "live"
    /\ objs[s].st = "live"
    /\ IF o = s
       THEN /\ last' = Call("CopyAssign", o, s, 0, "ok", 0)
            /\ UNCHANGED <<objs, heap, doubleFree, allocFailed, aborted, everAlloc>>
       ELSE LET p  == objs[o].data          \* this->data on entry
                h1 == Delete(heap, p)       \* delete[] data;
                n  == objs[s].size          \* size = other.size;
                q  == objs[s].data
            IN
            \/ /\ IsDoubleFree(heap, p)     \* delete[] of a released block kills the process
               /\ Abort("CopyAssign", o, s, 0)
            \/ /\ doubleFree' = (doubleFree \/ IsDoubleFree(heap, p))
               /\ IF n > 0
                  THEN \/ \E a \in FreeAddrs(h1) : \E c \in Memcpy(h1, q, n) :
                            /\ heap' = [h1 EXCEPT ![a] = Block(c)]
                            /\ everAlloc' = everAlloc \cup {a}
                            /\ objs' = [objs EXCEPT ![o] = Live(n, a)]
                            /\ last' = Call("CopyAssign", o, s, 0, "ok", 0)
                            /\ UNCHANGED <<allocFailed, aborted>>
                       \/ /\ FreeAddrs(h1) # {}
                          /\ BadRead(h1, q, n)       \* memcpy faults; the dead process is not observed
                          /\ aborted' = TRUE
                          /\ last' = Call("CopyAssign", o, s, 0, "abort", 0)
                          /\ UNCHANGED <<objs, heap, allocFailed, everAlloc>>
                       \/ \* new int[size] throws: data keeps the released address
                          /\ heap' = h1
                          /\ objs' = [objs EXCEPT ![o] = Live(n, p)]
                          /\ allocFailed' = TRUE
                          /\ last' = Call("CopyAssign", o, s, 0, "oom", 0)
                          /\ UNCHANGED <<aborted, everAlloc>>
                  ELSE /\ heap' = h1
                       /\ objs' = [objs EXCEPT ![o] = Live(n, Null)]
                       /\ last' = Call("CopyAssign", o, s, 0, "ok", 0)
                       /\ UNCHANGED <<allocFailed, aborted, everAlloc>>

\* A& A::operator=(A&& other) that empties other instead of handing it this's members
MoveAssignReset(o, s) ==
    /\ ~aborted
    /\ objs[o].st = "live"
    /\ objs[s].st = "live"
    /\ IF o = s
       THEN UNCHANGED objs
       ELSE objs' = [objs EXCEPT ![o] = Live(objs[s].size, objs[s].data),
                                 ![s] = Live(0, Null)]
    /\ last' = Call("MoveAssign", o, s, 0, "ok", 0)
    /\ UNCHANGED <<heap, doubleFree, allocFailed, aborted, everAlloc>>

\* A& A::operator=(A&& other)
MoveAssign(o, s) ==
    /\ ~aborted
    /\ objs[o].st = "live"
    /\ objs[s].st = "live"
    /\ IF o = s
       THEN UNCHANGED objs
       ELSE LET tmp_size == objs[o].size
                tmp_data == objs[o].data
            IN objs' = [objs EXCEPT ![o] = Live(objs[s].size, objs[s].data),
                                    ![s] = Live(tmp_size, tmp_data)]
    /\ last' = Call("MoveAssign", o, s, 0, "ok", 0)
    /\ UNCHANGED <<heap, doubleFree, allocFailed, aborted, everAlloc>>

\* ------------------------------------------------------------- destructor
\* A::~A() that forgets  delete[] data
DtorLeak(o) ==
    /\ ~aborted
    /\ objs[o].st = "live"
    /\ objs' = [objs EXCEPT ![o] = DeadObject]
    /\ last' = Call("Dtor", o, 0, 0, "ok", 0)
    /\ UNCHANGED <<heap, doubleFree, allocFailed, aborted, everAlloc>>

\* A::~A() { delete[] data; }
Dtor(o) ==
    /\ ~aborted
    /\ objs[o].st = "live"
    /\ LET p == objs[o].data IN
       \/ /\ IsDoubleFree(heap, p)
          /\ Abort("Dtor", o, 0, 0)
       \/ /\ heap' = Delete(heap, p)
          /\ doubleFree' = (doubleFree \/ IsDoubleFree(heap, p))
          /\ objs' = [objs EXCEPT ![o] = DeadObject]
          /\ last' = Call("Dtor", o, 0, 0, "ok", 0)
          /\ UNCHANGED <<allocFailed, aborted, everAlloc>>

\* ----------------------------------------------------------------- claims
LiveObjs == {o \in Obj : objs[o].st = "live"}
AllDestroyed == LiveObjs = {}
Owning(o) == objs[o].data # Null /\ heap[objs[o].data].alloc

\* C1: no storage block is owned by two different live instances at the same
\* time, in any state reachable by constructions, assignments and destructions.
C1_ExclusiveOwnership ==
    \A o1 \in LiveObjs : \A o2 \in LiveObjs :
        (o1 # o2 /\ objs[o1].data # Null) => objs[o1].data # objs[o2].data

\* C2: as long as no allocation has failed no block is released twice, and once
\* every instance has been destroyed every block ever allocated is released.
C2_ReleasedExactlyOnce ==
    ~allocFailed =>
        /\ ~doubleFree
        /\ ~aborted
        /\ AllDestroyed => \A a \in everAlloc : ~heap[a].alloc

C2_Witness ==
    /\ ~allocFailed
    /\ \A o \in Obj : objs[o].st = "dead"
    /\ everAlloc = Addr
    /\ last.op = "Dtor"

\* C3: every live instance is EMPTY (size 0, no storage) or OWNING (size > 0
\* and one allocated block of exactly size cells); size is never negative.
C3_EmptyOrOwning ==
    \A o \in LiveObjs :
        \/ objs[o].size = 0 /\ objs[o].data = Null
        \/ /\ objs[o].size > 0
           /\ Owning(o)
           /\ Len(heap[objs[o].data].cells) = objs[o].size

\* C4: after A(n) with n <= 0 the instance is as after A(): its size is 0, so
\* operator int returns 0, and it holds no storage.
C4_NonPositiveIsEmpty ==
    (last.op = "ParamCtor" /\ last.res = "ok" /\ last.arg <= 0) =>
        /\ objs[last.dst] = Live(0, Null)
        /\ ToInt(last.dst) = 0

\* C5: a successful A(n) with n > 0 leaves size = n and data at a block that
\* was free before the call and now holds exactly n cells, all of them 0.
C5_WithLengthZeroed ==
    [][(last'.op = "ParamCtor" /\ last'.res = "ok" /\ last'.arg > 0) =>
         LET o == last'.dst
             n == last'.arg
             a == objs'[o].data
         IN /\ objs[o].st = "none"
            /\ objs'[o].st = "live"
            /\ objs'[o].size = n
            /\ a # Null
            /\ ~heap[a].alloc
            /\ heap'[a].alloc
            /\ Len(heap'[a].cells) = n
            /\ \A i \in 1..n : heap'[a].cells[i] = 0
            /\ \A b \in Addr \ {a} : heap'[b] = heap[b]]_vars

C5_Witness ==
    /\ last.op = "ParamCtor"
    /\ last.res = "ok"
    /\ last.arg = MaxLen
    /\ objs[last.dst].size = MaxLen
    /\ Owning(last.dst)

\* C6: a successful A(other) has other's size and, in a block distinct from
\* other's, cells identical to other's; other and its block are unmodified.
C6_CopyCtorDeep ==
    [][(last'.op = "CopyCtor" /\ last'.res = "ok") =>
         LET o == last'.dst
             s == last'.src
             q == objs[s].data
             a == objs'[o].data
         IN /\ objs'[o].size = objs[s].size
            /\ objs'[s] = objs[s]
            /\ IF objs[s].size > 0
               THEN /\ q # Null
                    /\ heap[q].alloc
                    /\ a # Null
                    /\ a # q
                    /\ heap'[a].alloc
                    /\ heap'[a].cells = heap[q].cells
                    /\ heap'[q] = heap[q]
               ELSE a = Null /\ heap' = heap]_vars

\* C7: copy-assigning or move-assigning an instance to itself changes nothing:
\* same size, same block, same cells, nothing allocated, nothing released.
C7_SelfAssignNoOp ==
    [][(last'.op \in {"CopyAssign", "MoveAssign"} /\ last'.dst = last'.src) =>
         /\ last'.res = "ok"
         /\ objs' = objs
         /\ heap' = heap
         /\ everAlloc' = everAlloc
         /\ doubleFree' = doubleFree
         /\ allocFailed' = allocFailed
         /\ aborted' = aborted]_vars

C7_Witness ==
    /\ last.op = "CopyAssign"
    /\ last.dst = last.src
    /\ objs[last.dst].size = MaxLen
    /\ Owning(last.dst)

\* C8: move-assignment between two distinct instances exchanges their size and
\* data and touches no block; move-construction gives the new instance the
\* source's size and data and leaves the source with size 0 and nullptr.
C8_MoveSwaps ==
    [][/\ (last'.op = "MoveAssign" /\ last'.dst # last'.src) =>
            /\ objs'[last'.dst] = objs[last'.src]
            /\ objs'[last'.src] = objs[last'.dst]
            /\ \A x \in Obj \ {last'.dst, last'.src} : objs'[x] = objs[x]
            /\ heap' = heap
            /\ everAlloc' = everAlloc
            /\ doubleFree' = doubleFree
       /\ (last'.op = "MoveCtor") =>
            /\ objs[last'.dst].st = "none"
            /\ objs'[last'.dst] = objs[last'.src]
            /\ objs'[last'.src] = Live(0, Null)
            /\ \A x \in Obj \ {last'.dst, last'.src} : objs'[x] = objs[x]
            /\ heap' = heap
            /\ everAlloc' = everAlloc
            /\ doubleFree' = doubleFree]_vars

C8_Witness ==
    /\ last.op = "MoveAssign"
    /\ last.dst # last.src
    /\ objs[last.dst].size = MaxLen
    /\ Owning(last.dst)
    /\ objs[last.src].size = 1
    /\ Owning(last.src)
    /\ ~allocFailed

\* C9: when operator=(const A&) on a target that owns a block fails at
\* new int[size], the target is left referring to no block (data is nullptr).
C9_FailedCopyAssignHoldsNothing ==
    [][(/\ last'.op = "CopyAssign"
        /\ last'.res = "oom"
        /\ objs[last'.dst].data # Null
        /\ heap[objs[last'.dst].data].alloc) =>
         objs'[last'.dst].data = Null]_vars

\* C10: a successful operator=(const A&) on a target distinct from other
\* releases the target's block once, gives the target other's size and, in a
\* block distinct from other's, cells identical to other's (nullptr when that
\* size is not positive), and leaves other and its block unmodified.
C10_CopyAssignDeep ==
    [][(last'.op = "CopyAssign" /\ last'.res = "ok" /\ last'.dst # last'.src) =>
         LET o == last'.dst
             s == last'.src
             p == objs[o].data
             q == objs[s].data
             a == objs'[o].data
         IN /\ ~IsDoubleFree(heap, p)
            /\ (p # Null /\ p # a) => ~heap'[p].alloc
            /\ objs'[o].size = objs[s].size
            /\ objs'[s] = objs[s]
            /\ IF objs[s].size > 0
               THEN /\ q # Null
                    /\ heap[q].alloc
                    /\ a # Null
                    /\ a # q
                    /\ heap'[a].alloc
                    /\ heap'[a].cells = heap[q].cells
                    /\ heap'[q] = heap[q]
               ELSE a = Null]_vars

\* ------------------------------------------------------------------- main
Next ==
    \/ \E o \in Obj : DefaultCtor(o)
    \/ \E o \in Obj : \E n \in Lens : ParamCtor(o, n)
    \/ \E o \in Obj : \E h \in Halves : ConvCtor(o, h)
    \/ \E o \in Obj : ConvInt(o)
    \/ \E o \in Obj : \E s \in Obj : CopyCtor(o, s)
    \/ \E o \in Obj : \E s \in Obj : MoveCtor(o, s)
    \/ \E o \in Obj : \E s \in Obj : CopyAssign(o, s)
    \/ \E o \in Obj : \E s \in Obj : MoveAssign(o, s)
    \/ \E o \in Obj : Dtor(o)

Spec == Init /\ [][Next]_vars

====
